---- MODULE Spec2Model ----
(***************************************************************************)
(* Model of pi.c: Chudnovsky series by binary splitting (binary_split),    *)
(* the worker threads (compute_bs_thread) and the orchestration in main.   *)
(*                                                                         *)
(* GMP integers (mpz_t) are arbitrary-precision.  They are modelled as     *)
(* sign-magnitude numbers whose magnitude is a little-endian sequence of   *)
(* limbs in radix Base, without leading zero limbs, so that two mpz values *)
(* are equal exactly when their records are equal.                         *)
(*                                                                         *)
(* The -s option and the clock readings only write statistics to stderr    *)
(* after the computation; they are left out.                               *)
(***************************************************************************)
EXTENDS Integers, Sequences, FiniteSets, TLC

\* ------------------------------------------------------------------------
\* mpz_t: arbitrary-precision integers
\* ------------------------------------------------------------------------

\* Radix of one limb of an mpz_t magnitude.
Base == 1000

Limb(x, i) == IF i <= Len(x) THEN x[i] ELSE 0

RECURSIVE MagNorm(_)
\* Strips the most significant zero limbs.
MagNorm(x) ==
  IF x = <<>> THEN <<>>
  ELSE IF x[Len(x)] = 0 THEN MagNorm(SubSeq(x, 1, Len(x) - 1))
  ELSE x

RECURSIVE MagOfNat(_)
\* Limbs of a machine natural number.
MagOfNat(n) ==
  IF n = 0 THEN <<>> ELSE <<n % Base>> \o MagOfNat(n \div Base)

RECURSIVE MagAddFrom(_, _, _, _)
MagAddFrom(x, y, i, carry) ==
  IF i > Len(x) /\ i > Len(y)
  THEN (IF carry = 0 THEN <<>> ELSE <<carry>>)
  ELSE LET s == Limb(x, i) + Limb(y, i) + carry
       IN  <<s % Base>> \o MagAddFrom(x, y, i + 1, s \div Base)

MagAdd(x, y) == MagAddFrom(x, y, 1, 0)

RECURSIVE MagSubFrom(_, _, _, _)
MagSubFrom(x, y, i, borrow) ==
  IF i > Len(x) THEN <<>>
  ELSE LET d == x[i] - Limb(y, i) - borrow
       IN  IF d < 0
           THEN <<d + Base>> \o MagSubFrom(x, y, i + 1, 1)
           ELSE <<d>> \o MagSubFrom(x, y, i + 1, 0)

\* x - y for magnitudes with x >= y.
MagSub(x, y) == MagNorm(MagSubFrom(x, y, 1, 0))

RECURSIVE MagCmpFrom(_, _, _)
MagCmpFrom(x, y, i) ==
  IF i = 0 THEN 0
  ELSE IF x[i] > y[i] THEN 1
  ELSE IF x[i] < y[i] THEN -1
  ELSE MagCmpFrom(x, y, i - 1)

\* -1, 0 or 1 as x < y, x = y or x > y.
MagCmp(x, y) ==
  IF Len(x) > Len(y) THEN 1
  ELSE IF Len(x) < Len(y) THEN -1
  ELSE MagCmpFrom(x, y, Len(x))

RECURSIVE MagCoef(_, _, _, _)
\* Sum of x[i] * y[k - i + 1] for i in lo..hi: one column of the product.
MagCoef(x, y, k, i) ==
  IF i > Len(x) \/ i > k THEN 0
  ELSE x[i] * y[k - i + 1] + MagCoef(x, y, k, i + 1)

RECURSIVE MagCarryFrom(_, _, _)
MagCarryFrom(c, k, carry) ==
  IF k > Len(c)
  THEN MagOfNat(carry)
  ELSE LET s == c[k] + carry
       IN  <<s % Base>> \o MagCarryFrom(c, k + 1, s \div Base)

MagMul(x, y) ==
  IF x = <<>> \/ y = <<>> THEN <<>>
  ELSE LET n == Len(x) + Len(y) - 1
           c == [k \in 1..n |->
                   MagCoef(x, y, k, IF k > Len(y) THEN k - Len(y) + 1 ELSE 1)]
       IN  MagNorm(MagCarryFrom(c, 1, 0))

RECURSIVE MagDivFrom(_, _, _)
\* Long division of the limbs 1..i of x by the small divisor d, most significant
\* limb first; rem is the remainder carried in from the limbs above.
MagDivFrom(x, d, i) ==
  IF i > Len(x) THEN [q |-> <<>>, r |-> 0]
  ELSE LET up  == MagDivFrom(x, d, i + 1)
           cur == up.r * Base + x[i]
       IN  [q |-> <<cur \div d>> \o up.q, r |-> cur % d]

MagDivSmall(x, d) == MagNorm(MagDivFrom(x, d, 1).q)
MagModSmall(x, d) == MagDivFrom(x, d, 1).r

mpz_zero == [sgn |-> 0, mag |-> <<>>]

\* mpz_set_ui(rop, n)
mpz_set_ui(n) == [sgn |-> IF n = 0 THEN 0 ELSE 1, mag |-> MagOfNat(n)]

\* mpz_neg(rop, x)
mpz_neg(x) == [sgn |-> 0 - x.sgn, mag |-> x.mag]

\* mpz_mul(rop, x, y)
mpz_mul(x, y) ==
  IF x.sgn = 0 \/ y.sgn = 0 THEN mpz_zero
  ELSE [sgn |-> x.sgn * y.sgn, mag |-> MagMul(x.mag, y.mag)]

\* mpz_add(rop, x, y)
mpz_add(x, y) ==
  IF x.sgn = 0 THEN y
  ELSE IF y.sgn = 0 THEN x
  ELSE IF x.sgn = y.sgn THEN [sgn |-> x.sgn, mag |-> MagAdd(x.mag, y.mag)]
  ELSE LET c == MagCmp(x.mag, y.mag)
       IN  IF c = 0 THEN mpz_zero
           ELSE IF c > 0 THEN [sgn |-> x.sgn, mag |-> MagSub(x.mag, y.mag)]
           ELSE [sgn |-> y.sgn, mag |-> MagSub(y.mag, x.mag)]

\* mpz_mul_ui(rop, x, n)
mpz_mul_ui(x, n) == mpz_mul(x, mpz_set_ui(n))

\* mpz_add_ui(rop, x, n)
mpz_add_ui(x, n) == mpz_add(x, mpz_set_ui(n))

RECURSIVE mpz_pow_ui(_, _)
\* mpz_pow_ui(rop, x, e)
mpz_pow_ui(x, e) ==
  IF e = 0 THEN mpz_set_ui(1) ELSE mpz_mul(x, mpz_pow_ui(x, e - 1))

\* mpz_divexact_ui(rop, x, d): the quotient; exact only when d divides x.
mpz_divexact_ui(x, d) ==
  LET q == MagDivSmall(x.mag, d)
  IN  IF q = <<>> THEN mpz_zero ELSE [sgn |-> x.sgn, mag |-> q]

\* x mod d for d > 0 (the remainder mpz_divexact_ui assumes to be zero).
mpz_fdiv_ui(x, d) ==
  LET r == MagModSmall(x.mag, d)
  IN  IF x.sgn < 0 /\ r # 0 THEN d - r ELSE r

\* ------------------------------------------------------------------------
\* Bounds of the model
\* ------------------------------------------------------------------------

\* Largest -d value explored (the default of 1000 digits needs 81 terms).
MaxDecimals == 14
\* Largest -t value explored among the thread counts below the term count.
MaxThreads == 3
\* The -t values explored go down to minus this number.
MinThreadArg == 2
\* A -t value above the term count of every explored digit count.
ManyThreads == 12
\* Number of binary_split frames the stack of a thread can hold.
StackLimit == 8
\* Largest term index of the ranges explored for binary_split on its own.
MaxTerm == 7

\* The values atoi(optarg) takes for -d and for -t.
DecimalArgs == {0, 1, MaxDecimals}
ThreadArgs == ((0 - MinThreadArg)..MaxThreads) \cup {ManyThreads}

\* C's int division truncates toward zero.
CDiv(x, y) ==
  IF x >= 0 THEN x \div y ELSE 0 - ((0 - x) \div y)

\* ------------------------------------------------------------------------
\* pqt_t and binary_split
\* ------------------------------------------------------------------------

\* pqt_t after mpz_inits: three zero integers.
pqt_init == [st |-> "init", P |-> mpz_zero, Q |-> mpz_zero, T |-> mpz_zero]
\* pqt_t storage before mpz_inits and after mpz_clears.
pqt_uninit == [st |-> "uninit", P |-> mpz_zero, Q |-> mpz_zero, T |-> mpz_zero]
pqt_cleared == [st |-> "cleared", P |-> mpz_zero, Q |-> mpz_zero, T |-> mpz_zero]

\* LeafP with 6a + 1 for 6a - 1 in the third factor.
LeafP_plus(a) ==
  IF a = 0
  THEN mpz_set_ui(1)
  ELSE mpz_neg(mpz_mul_ui(mpz_mul_ui(mpz_set_ui(6 * a - 5), 2 * a - 1), 6 * a + 1))

\* res->P of the base case [a, a+1).
LeafP(a) ==
  IF a = 0
  THEN mpz_set_ui(1)
  ELSE mpz_neg(mpz_mul_ui(mpz_mul_ui(mpz_set_ui(6 * a - 5), 2 * a - 1), 6 * a - 1))

\* The value handed to mpz_divexact_ui in the base case: a^3 * 640320^3.
LeafQNumer(a) ==
  mpz_mul_ui(mpz_mul_ui(mpz_mul_ui(mpz_pow_ui(mpz_set_ui(a), 3), 640320), 640320), 640320)

\* res->Q of the base case.
LeafQ(a) ==
  IF a = 0 THEN mpz_set_ui(1) ELSE mpz_divexact_ui(LeafQNumer(a), 24)

\* res->T of the base case, from the res->P just stored.
LeafT(P, a) ==
  mpz_mul(P, mpz_add_ui(mpz_mul_ui(mpz_set_ui(545140134), a), 13591409))

\* res->P and res->Q of the recursive case, from the two halves.
SplitP(left, right) == mpz_mul(left.P, right.P)
SplitQ(left, right) == mpz_mul(left.Q, right.Q)

\* SplitT with right.P for left.P in the second product.
SplitT_rightP(left, right) ==
  LET t1   == mpz_mul(right.Q, left.T)
      temp == mpz_mul(right.P, right.T)
  IN  mpz_add(t1, temp)

\* res->T of the recursive case: right.Q * left.T + left.P * right.T.
SplitT(left, right) ==
  LET t1   == mpz_mul(right.Q, left.T)
      temp == mpz_mul(left.P, right.T)
  IN  mpz_add(t1, temp)

\* What happens to a pqt_t in the order the code does it: mpz_inits, the stores
\* into it, its use by the step that consumes it, mpz_clears.
Lifecycle == <<"init", "write", "use", "clear">>

\* The temporaries left and right of the frame number depth on [a, b), with
\* what has happened to each.
FrameTemps(a, b, depth, evLeft, evRight) ==
  {[side |-> "left", depth |-> depth, a |-> a, b |-> b, events |-> evLeft],
   [side |-> "right", depth |-> depth, a |-> a, b |-> b, events |-> evRight]}

RECURSIVE binary_split(_, _, _)
RECURSIVE split_halves(_, _, _)

\* split_halves with the upper half started one term late, at m + 1.
split_halves_skipMid(a, b, depth) ==
  LET m == CDiv(a + b, 2)
      l == binary_split(a, m, depth + 1)
  IN  IF ~l.ok
      THEN [ok |-> FALSE, left |-> pqt_init, right |-> pqt_init, calls |-> l.calls,
            lret |-> FALSE, temps |-> l.temps]
      ELSE LET r == binary_split(m + 1, b, depth + 1)
           IN  [ok |-> r.ok, left |-> l.res, right |-> r.res,
                calls |-> l.calls \o r.calls,
                lret |-> TRUE, temps |-> l.temps \cup r.temps]

\* The recursive case of the frame number depth up to its two recursive calls:
\* m, then binary_split(a, m, &left) and binary_split(m, b, &right).
\* ok: both calls returned; calls: the ranges passed to binary_split by the two
\* calls and below them, in call order; lret: the first call returned; temps:
\* the temporaries of the frames below this one.
split_halves(a, b, depth) ==
  LET m == CDiv(a + b, 2)
      l == binary_split(a, m, depth + 1)
  IN  IF ~l.ok
      THEN [ok |-> FALSE, left |-> pqt_init, right |-> pqt_init, calls |-> l.calls,
            lret |-> FALSE, temps |-> l.temps]
      ELSE LET r == binary_split(m, b, depth + 1)
           IN  [ok |-> r.ok, left |-> l.res, right |-> r.res,
                calls |-> l.calls \o r.calls,
                lret |-> TRUE, temps |-> l.temps \cup r.temps]

\* binary_split(a, b, res) entered as frame number depth of its thread.
\* ok: the call returned (FALSE: the recursion ran out of stack);
\* res: the triple stored through res; calls: the ranges passed to
\* binary_split by this call and below it, in call order; temps: the
\* temporaries left and right of this frame and of the frames below it, with
\* what has happened to each when the call ends.
binary_split(a, b, depth) ==
  IF depth > StackLimit
  THEN [ok |-> FALSE, res |-> pqt_init, calls |-> << <<a, b>> >>, temps |-> {}]
  ELSE IF b - a = 1
  THEN LET P == LeafP(a)
       IN  [ok |-> TRUE,
            res |-> [st |-> "init", P |-> P, Q |-> LeafQ(a), T |-> LeafT(P, a)],
            calls |-> << <<a, b>> >>,
            temps |-> {}]
  ELSE LET h == split_halves(a, b, depth)
       IN  IF ~h.ok
           THEN [ok |-> FALSE, res |-> pqt_init, calls |-> << <<a, b>> >> \o h.calls,
                 temps |-> h.temps \cup
                           FrameTemps(a, b, depth,
                                      IF h.lret THEN SubSeq(Lifecycle, 1, 2)
                                                ELSE SubSeq(Lifecycle, 1, 1),
                                      SubSeq(Lifecycle, 1, 1))]
           ELSE [ok |-> TRUE,
                 res |-> [st |-> "init",
                          P |-> SplitP(h.left, h.right),
                          Q |-> SplitQ(h.left, h.right),
                          T |-> SplitT(h.left, h.right)],
                 calls |-> << <<a, b>> >> \o h.calls,
                 temps |-> h.temps \cup FrameTemps(a, b, depth, Lifecycle, Lifecycle)]

\* Largest term count of the explored digit counts.
MaxIterations == (MaxDecimals \div 14) + 10

\* split_halves of a thread's top frame, evaluated once for every range a
\* thread of the explored runs can be given.
top_halves ==
  [r \in {<<a, b>> : a \in 0..MaxIterations, b \in 0..MaxIterations} |->
     split_halves(r[1], r[2], 1)]

\* ------------------------------------------------------------------------
\* State of one run of the program
\* ------------------------------------------------------------------------

VARIABLES
  pc,           \* where main is: "getopt", "single", "derive1", "create",
                \* "join", "fold", "derive", "done" (main returned 0 after the
                \* computation), "usage" (main returned from print_help),
                \* "killed" (the process died of a stack overflow)
  ret,          \* value returned by main, -1 while it has not returned
  decimals,     \* int decimals
  num_threads,  \* int num_threads
  quiet_mode,   \* int quiet_mode
  t_arg,        \* <<atoi(optarg)>> of the last -t option, <<>> when none was given
  iterations,   \* int iterations
  chunk,        \* int chunk
  i,            \* loop index of main's creation loop and of its join loop
  data,         \* bs_data_t *data: index -> [a, b, thread_id, result]
  wpc,          \* threads[]: index -> "none" (not created), "run" (created, in
                \* binary_split before its stores to res), "P", "Q", "T" (about
                \* to store that field of res), "exited" (terminated)
  left,         \* index -> the top frame's pqt_t left of that worker
  right,        \* index -> the top frame's pqt_t right of that worker
  result,       \* pqt_t result of the single-thread path
  final,        \* pqt_t final of the multi-thread path
  stdout,       \* what was printed on standard output, in order
  calls,        \* every range [a, b) passed to binary_split so far
  overtaken,    \* TRUE once a worker terminated before a worker of lower index
  probe         \* binary_split applied on its own to one range [a, b) and to its
                \* two parts at m: the range and the triples obtained so far;
                \* for the call on [a, b) also whether it returned (ok) and the
                \* ranges binary_split was entered with, in call order (trace)
VARIABLE
  life          \* every pqt_t that was initialised -> what has happened to it,
                \* in order: "init" (mpz_inits), "write" (a store into it),
                \* "use" (the step that consumes it), "clear" (mpz_clears)

vars == <<pc, ret, decimals, num_threads, quiet_mode, t_arg, iterations, chunk,
          i, data, wpc, left, right, result, final, stdout, calls, overtaken,
          probe, life>>

\* The state of the program run.
runvars == <<pc, ret, decimals, num_threads, quiet_mode, t_arg, iterations, chunk,
             i, data, wpc, left, right, result, final, stdout, calls, overtaken,
             life>>

mainvars == <<pc, ret, decimals, num_threads, quiet_mode, t_arg, iterations,
              chunk, i, result, final, stdout, probe>>

\* probe while binary_split is not applied on its own.
NoProbe == [a |-> 0, b |-> 0, m |-> 0, whole |-> pqt_uninit, lo |-> pqt_uninit,
            hi |-> pqt_uninit, comb |-> pqt_uninit, ok |-> FALSE, trace |-> <<>>]

\* The value of the mpf expression (426880 * sqrt(10005)) * Q / T at the default
\* precision (digits + 100) * 4, printed with "%.*Ff\n" to digits decimals.
\* The expression is the same on both paths and reads nothing but Q, T and the
\* digit count; it is kept as that triple of arguments.
pi_value(digits, Q, T) == [digits |-> digits, fQ |-> Q, fT |-> T]

Range(seq) == {seq[k] : k \in DOMAIN seq}

\* The pqt_t result of main (kind "result"), final (kind "final") and
\* data[k].result (kind "data", owner k); main is owner -1.
MainTriple(kind, owner) ==
  [kind |-> kind, owner |-> owner, depth |-> 0, a |-> 0, b |-> 0]

\* The temporary t (left or right of one binary_split frame) in the thread owner.
TempTriple(t, owner) ==
  [kind |-> t.side, owner |-> owner, depth |-> t.depth, a |-> t.a, b |-> t.b]

\* f with the events es added to what has happened to the triple id.
Evs(f, id, es) ==
  IF id \in DOMAIN f
  THEN [f EXCEPT ![id] = @ \o es]
  ELSE [x \in DOMAIN f \cup {id} |-> IF x = id THEN es ELSE f[x]]

\* f with the temporaries temps of the binary_split frames of the thread owner.
AddTemps(f, owner, temps) ==
  LET ids == {TempTriple(t, owner) : t \in temps}
      ev(id) == (CHOOSE t \in temps : TempTriple(t, owner) = id).events
  IN  [x \in DOMAIN f \cup ids |->
         IF x \notin ids THEN f[x]
         ELSE IF x \in DOMAIN f THEN f[x] \o ev(x)
         ELSE ev(x)]

Init ==
  /\ pc = "getopt"
  /\ ret = -1
  /\ decimals = 1000
  /\ num_threads = 1
  /\ quiet_mode = 0
  /\ t_arg = <<>>
  /\ iterations = 0
  /\ chunk = 0
  /\ i = 0
  /\ data = <<>>
  /\ wpc = <<>>
  /\ left = <<>>
  /\ right = <<>>
  /\ result = pqt_uninit
  /\ final = pqt_uninit
  /\ stdout = <<>>
  /\ calls = {}
  /\ overtaken = FALSE
  /\ probe = NoProbe
  /\ life = [t \in {} |-> <<>>]

\* ------------------------------------------------------------------------
\* main: option parsing
\* ------------------------------------------------------------------------

\* ClampThreads that lets 0 through.
ClampThreads_negative(n) == IF n < 0 THEN 1 ELSE n

\* num_threads after case 't'.
ClampThreads(n) == IF n < 1 THEN 1 ELSE n

\* case 'd': decimals = atoi(optarg)
OptD(v) ==
  /\ pc = "getopt"
  /\ decimals' = v
  /\ UNCHANGED <<pc, ret, num_threads, quiet_mode, t_arg, iterations, chunk, i,
                 data, wpc, left, right, result, final, stdout, calls, overtaken, probe, life>>

\* case 't': num_threads = atoi(optarg); if (num_threads < 1) num_threads = 1
OptT(v) ==
  /\ pc = "getopt"
  /\ num_threads' = ClampThreads(v)
  /\ t_arg' = <<v>>
  /\ UNCHANGED <<pc, ret, decimals, quiet_mode, iterations, chunk, i,
                 data, wpc, left, right, result, final, stdout, calls, overtaken, probe, life>>

\* case 'q'
OptQ ==
  /\ pc = "getopt"
  /\ quiet_mode' = 1
  /\ UNCHANGED <<pc, ret, decimals, num_threads, t_arg, iterations, chunk, i,
                 data, wpc, left, right, result, final, stdout, calls, overtaken, probe, life>>

\* case 'h' (code 0) and default (code 1): print_help and return
OptHelp(code) ==
  /\ pc = "getopt"
  /\ pc' = "usage"
  /\ ret' = code
  /\ stdout' = Append(stdout, "help")
  /\ UNCHANGED <<decimals, num_threads, quiet_mode, t_arg, iterations, chunk, i,
                 data, wpc, left, right, result, final, calls, overtaken, probe, life>>

\* int iterations = decimals / 14 + 10
Iterations(d) == CDiv(d, 14) + 10

\* The digit counts and thread counts the model follows into the computation.
Explored ==
  /\ decimals \in 0..MaxDecimals
  /\ num_threads \in (1..MaxThreads) \cup {ManyThreads}

\* getopt returned -1 and num_threads == 1: mpz_inits(result...)
StartSingle ==
  /\ pc = "getopt"
  /\ Explored
  /\ num_threads = 1
  /\ iterations' = Iterations(decimals)
  /\ result' = pqt_init
  /\ pc' = "single"
  /\ UNCHANGED <<ret, decimals, num_threads, quiet_mode, t_arg, chunk, i,
                 data, wpc, left, right, final, stdout, calls, overtaken, probe>>
  /\ life' = Evs(life, MainTriple("result", -1), <<"init">>)

\* getopt returned -1 and num_threads != 1: chunk and the two mallocs
StartMulti ==
  /\ pc = "getopt"
  /\ Explored
  /\ num_threads # 1
  /\ iterations' = Iterations(decimals)
  /\ chunk' = CDiv(iterations', num_threads)
  /\ data' = [k \in 0..(num_threads - 1) |->
                [a |-> 0, b |-> 0, thread_id |-> 0, result |-> pqt_uninit]]
  /\ wpc' = [k \in 0..(num_threads - 1) |-> "none"]
  /\ left' = [k \in 0..(num_threads - 1) |-> pqt_uninit]
  /\ right' = [k \in 0..(num_threads - 1) |-> pqt_uninit]
  /\ i' = 0
  /\ pc' = "create"
  /\ UNCHANGED <<ret, decimals, num_threads, quiet_mode, t_arg,
                 result, final, stdout, calls, overtaken, probe, life>>

\* ------------------------------------------------------------------------
\* main: single-thread path
\* ------------------------------------------------------------------------

\* The process is running: main has not returned and nothing killed it.
Alive == pc \notin {"killed", "done", "usage"}

\* binary_split(0, iterations, &result)
SingleSplit ==
  /\ pc = "single"
  /\ LET r == binary_split(0, iterations, 1)
     IN  /\ calls' = calls \cup Range(r.calls)
         /\ IF r.ok
            THEN result' = r.res /\ pc' = "derive1"
            ELSE result' = result /\ pc' = "killed"
         /\ life' = AddTemps(IF r.ok
                              THEN Evs(life, MainTriple("result", -1), <<"write">>)
                              ELSE life,
                              -1, r.temps)
  /\ UNCHANGED <<ret, decimals, num_threads, quiet_mode, t_arg, iterations, chunk,
                 i, data, wpc, left, right, final, stdout, overtaken, probe>>

\* The mpf expression, gmp_printf unless quiet, the clears, return 0
SingleDerive ==
  /\ pc = "derive1"
  /\ stdout' = IF quiet_mode = 0
               THEN Append(stdout, pi_value(decimals, result.Q, result.T))
               ELSE stdout
  /\ result' = pqt_cleared
  /\ pc' = "done"
  /\ ret' = 0
  /\ UNCHANGED <<decimals, num_threads, quiet_mode, t_arg, iterations, chunk,
                 i, data, wpc, left, right, final, calls, overtaken, probe>>
  /\ life' = Evs(life, MainTriple("result", -1), <<"use", "clear">>)

\* ------------------------------------------------------------------------
\* main: multi-thread path
\* ------------------------------------------------------------------------

\* data[k].a as the creation loop sets it.
RangeStart(k, ch) == k * ch

\* RangeEnd without the remainder for the last thread.
RangeEnd_noRemainder(k, ch, n, w) == (k + 1) * ch

\* data[k].b as the creation loop sets it for thread k of w over n terms.
RangeEnd(k, ch, n, w) == IF k = w - 1 THEN n ELSE (k + 1) * ch

\* One turn of the creation loop: the range, mpz_inits, pthread_create; after
\* the last turn mpz_inits(final...) and main goes on to pthread_join(threads[0]).
CreateThread ==
  /\ pc = "create"
  /\ i < num_threads
  /\ data' = [data EXCEPT ![i] =
                [a |-> RangeStart(i, chunk),
                 b |-> RangeEnd(i, chunk, iterations, num_threads),
                 thread_id |-> i,
                 result |-> pqt_init]]
  /\ wpc' = [wpc EXCEPT ![i] = "run"]
  /\ IF i + 1 < num_threads
     THEN i' = i + 1 /\ pc' = pc /\ final' = final
     ELSE i' = 0 /\ pc' = "join" /\ final' = pqt_init
  /\ UNCHANGED <<ret, decimals, num_threads, quiet_mode, t_arg, iterations, chunk,
                 left, right, result, stdout, calls, overtaken, probe>>
  /\ LET created == Evs(life, MainTriple("data", i), <<"init">>)
     IN  life' = IF i + 1 < num_threads
                 THEN created
                 ELSE Evs(created, MainTriple("final", -1), <<"init">>)

\* pthread_join(threads[0], NULL) in every turn of the join sequence.
JoinReady_first(k) == wpc[0] = "exited"

\* pthread_join that returns as soon as the thread exists.
JoinReady_noWait(k) == wpc[k] # "none"

\* pthread_join(threads[i], NULL) returns once thread i has terminated.
JoinReady(k) == wpc[k] = "exited"

\* pthread_join(threads[i], NULL) of the turn i of main's join sequence
Join ==
  /\ pc = "join"
  /\ JoinReady(i)
  /\ pc' = "fold"
  /\ UNCHANGED <<ret, decimals, num_threads, quiet_mode, t_arg, iterations, chunk,
                 i, data, wpc, left, right, result, final, stdout, calls, overtaken, probe, life>>

\* mpz_set of the three fields of final from data[0].result
FoldFirst ==
  /\ pc = "fold"
  /\ i = 0
  /\ final' = [st |-> final.st, P |-> data[0].result.P,
               Q |-> data[0].result.Q, T |-> data[0].result.T]
  /\ i' = 1
  /\ pc' = IF 1 < num_threads THEN "join" ELSE "derive"
  /\ UNCHANGED <<ret, decimals, num_threads, quiet_mode, t_arg, iterations, chunk,
                 data, wpc, left, right, result, stdout, calls, overtaken, probe>>
  /\ life' = Evs(Evs(life, MainTriple("data", 0), <<"use">>),
                 MainTriple("final", -1), <<"write">>)

\* FoldStep with final.P multiplied before final.T is rebuilt.
FoldStep_newP(acc, w) ==
  LET P1   == mpz_mul(acc.P, w.P)
      Q1   == mpz_mul(acc.Q, w.Q)
      temp == mpz_mul(w.Q, acc.T)
      T1   == mpz_mul(P1, w.T)
      T2   == mpz_add(T1, temp)
  IN  [st |-> acc.st, P |-> P1, Q |-> Q1, T |-> T2]

\* The body of the aggregation loop on the accumulator acc and the triple w of
\* the thread just joined: final.T is rebuilt first, from final.P as it still is.
FoldStep(acc, w) ==
  LET temp == mpz_mul(w.Q, acc.T)
      T1   == mpz_mul(acc.P, w.T)
      T2   == mpz_add(T1, temp)
      P1   == mpz_mul(acc.P, w.P)
      Q1   == mpz_mul(acc.Q, w.Q)
  IN  [st |-> acc.st, P |-> P1, Q |-> Q1, T |-> T2]

\* One turn of the aggregation loop after its pthread_join: the combination and
\* mpz_clears of data[i].result.
FoldNext ==
  /\ pc = "fold"
  /\ i >= 1
  /\ final' = FoldStep(final, data[i].result)
  /\ data' = [data EXCEPT ![i].result = pqt_cleared]
  /\ i' = i + 1
  /\ pc' = IF i + 1 < num_threads THEN "join" ELSE "derive"
  /\ UNCHANGED <<ret, decimals, num_threads, quiet_mode, t_arg, iterations, chunk,
                 wpc, left, right, result, stdout, calls, overtaken, probe>>
  /\ life' = Evs(Evs(life, MainTriple("data", i), <<"use", "clear">>),
                 MainTriple("final", -1), <<"write">>)

\* The mpf expression, gmp_printf unless quiet, the clears and frees, return 0
Derive ==
  /\ pc = "derive"
  /\ stdout' = IF quiet_mode = 0
               THEN Append(stdout, pi_value(decimals, final.Q, final.T))
               ELSE stdout
  /\ final' = pqt_cleared
  /\ data' = [data EXCEPT ![0].result = pqt_cleared]
  /\ pc' = "done"
  /\ ret' = 0
  /\ UNCHANGED <<decimals, num_threads, quiet_mode, t_arg, iterations, chunk,
                 i, wpc, left, right, result, calls, overtaken, probe>>
  /\ life' = Evs(Evs(life, MainTriple("final", -1), <<"use", "clear">>),
                 MainTriple("data", 0), <<"clear">>)

\* ------------------------------------------------------------------------
\* compute_bs_thread: worker k runs binary_split(data->a, data->b, &data->result)
\* ------------------------------------------------------------------------

\* Every worker handed &data[0].
ResultSlot_shared(k) == 0

\* The triple a worker's binary_split stores through: its own data->result.
ResultSlot(k) == k

\* The top frame up to its stores: the base case has nothing to do before them;
\* the recursive case runs mpz_inits of left and right and the two recursive
\* calls, which kill the process when the stack runs out.
WorkerSplit(k) ==
  /\ Alive
  /\ wpc[k] = "run"
  /\ LET a == data[k].a
         b == data[k].b
     IN  IF b - a = 1
         THEN /\ calls' = calls \cup {<<a, b>>}
              /\ wpc' = [wpc EXCEPT ![k] = "P"]
              /\ UNCHANGED <<pc, left, right, life>>
         ELSE LET h == top_halves[<<a, b>>]
              IN  /\ calls' = calls \cup {<<a, b>>} \cup Range(h.calls)
                  /\ life' = AddTemps(life, k,
                                h.temps \cup
                                FrameTemps(a, b, 1,
                                           IF h.lret THEN SubSeq(Lifecycle, 1, 2)
                                                     ELSE SubSeq(Lifecycle, 1, 1),
                                           IF h.ok THEN SubSeq(Lifecycle, 1, 2)
                                                   ELSE SubSeq(Lifecycle, 1, 1)))
                  /\ IF h.ok
                     THEN /\ left' = [left EXCEPT ![k] = h.left]
                          /\ right' = [right EXCEPT ![k] = h.right]
                          /\ wpc' = [wpc EXCEPT ![k] = "P"]
                          /\ pc' = pc
                     ELSE /\ pc' = "killed"
                          /\ UNCHANGED <<wpc, left, right>>
  /\ UNCHANGED <<ret, decimals, num_threads, quiet_mode, t_arg, iterations, chunk,
                 i, data, result, final, stdout, overtaken, probe>>

\* The store to res->P: the base case's or mpz_mul(res->P, left.P, right.P)
WorkerStoreP(k) ==
  /\ Alive
  /\ wpc[k] = "P"
  /\ LET a == data[k].a
         b == data[k].b
         v == IF b - a = 1 THEN LeafP(a) ELSE SplitP(left[k], right[k])
     IN  data' = [data EXCEPT ![ResultSlot(k)].result.P = v]
  /\ wpc' = [wpc EXCEPT ![k] = "Q"]
  /\ UNCHANGED <<mainvars, left, right, calls, overtaken>>
  /\ life' = Evs(life, MainTriple("data", ResultSlot(k)), <<"write">>)

\* The store to res->Q: the base case's or mpz_mul(res->Q, left.Q, right.Q)
WorkerStoreQ(k) ==
  /\ Alive
  /\ wpc[k] = "Q"
  /\ LET a == data[k].a
         b == data[k].b
         v == IF b - a = 1 THEN LeafQ(a) ELSE SplitQ(left[k], right[k])
     IN  data' = [data EXCEPT ![ResultSlot(k)].result.Q = v]
  /\ wpc' = [wpc EXCEPT ![k] = "T"]
  /\ UNCHANGED <<mainvars, left, right, calls, overtaken>>
  /\ life' = Evs(life, MainTriple("data", ResultSlot(k)), <<"write">>)

\* The stores to res->T, the clears of the frame's temporaries, the return of
\* binary_split and pthread_exit.
WorkerStoreT(k) ==
  /\ Alive
  /\ wpc[k] = "T"
  /\ LET a == data[k].a
         b == data[k].b
         v == IF b - a = 1
              THEN LeafT(data[ResultSlot(k)].result.P, a)
              ELSE SplitT(left[k], right[k])
     IN  /\ data' = [data EXCEPT ![ResultSlot(k)].result.T = v]
         /\ IF b - a = 1
            THEN UNCHANGED <<left, right>>
            ELSE /\ left' = [left EXCEPT ![k] = pqt_cleared]
                 /\ right' = [right EXCEPT ![k] = pqt_cleared]
  /\ wpc' = [wpc EXCEPT ![k] = "exited"]
  /\ overtaken' = (overtaken \/ \E j \in 0..(k - 1) : wpc[j] # "exited")
  /\ UNCHANGED <<mainvars, calls>>
  /\ LET a == data[k].a
         b == data[k].b
         stored == Evs(life, MainTriple("data", ResultSlot(k)), <<"write">>)
     IN  life' = IF b - a = 1
                 THEN stored
                 ELSE AddTemps(stored, k,
                               FrameTemps(a, b, 1, SubSeq(Lifecycle, 3, 4),
                                          SubSeq(Lifecycle, 3, 4)))

\* ------------------------------------------------------------------------
\* The program
\* ------------------------------------------------------------------------

Next ==
  \/ \E v \in DecimalArgs : OptD(v)
  \/ \E v \in ThreadArgs : OptT(v)
  \/ OptQ
  \/ \E code \in {0, 1} : OptHelp(code)
  \/ StartSingle
  \/ SingleSplit
  \/ SingleDerive
  \/ StartMulti
  \/ CreateThread
  \/ Join
  \/ FoldFirst
  \/ FoldNext
  \/ Derive
  \/ \E k \in DOMAIN wpc : WorkerSplit(k)
  \/ \E k \in DOMAIN wpc : WorkerStoreP(k)
  \/ \E k \in DOMAIN wpc : WorkerStoreQ(k)
  \/ \E k \in DOMAIN wpc : WorkerStoreT(k)

Spec == Init /\ [][Next]_vars

\* ------------------------------------------------------------------------
\* binary_split on its own: one range [a, b), split directly and in two parts
\* ------------------------------------------------------------------------

\* Largest index of the single-term ranges explored.
MaxLeaf == 12

\* The ranges [a, b) with a split point a < m < b, and the single-term ranges
\* [k, k+1) (m plays no part there).
ProbeInputs ==
  {<<a, m, b>> : a \in 0..MaxTerm, m \in 0..MaxTerm, b \in 0..(MaxTerm + 1)}

\* The inputs of ProbeInputs that are ranges with a split point inside.
SplitInputs == {t \in ProbeInputs : t[1] < t[2] /\ t[2] < t[3]}

ProbeInit ==
  /\ Init!1 /\ Init!2 /\ Init!3 /\ Init!4 /\ Init!5 /\ Init!6 /\ Init!7
  /\ Init!8 /\ Init!9 /\ Init!10 /\ Init!11 /\ Init!12 /\ Init!13 /\ Init!14
  /\ Init!15 /\ Init!16 /\ Init!17 /\ Init!18 /\ Init!20
  /\ \/ \E t \in SplitInputs :
          probe = [NoProbe EXCEPT !.a = t[1], !.m = t[2], !.b = t[3]]
     \/ \E k \in 0..MaxLeaf :
          probe = [NoProbe EXCEPT !.a = k, !.m = k, !.b = k + 1]

\* binary_split(a, b, &whole)
ProbeWhole ==
  /\ probe.whole.st = "uninit"
  /\ probe.trace = <<>>
  /\ LET r == binary_split(probe.a, probe.b, 1)
     IN  probe' = [probe EXCEPT !.whole = IF r.ok THEN r.res ELSE @,
                                !.ok = r.ok,
                                !.trace = r.calls]
  /\ UNCHANGED runvars

\* binary_split(a, m, &lo)
ProbeLo ==
  /\ probe.a < probe.m
  /\ probe.lo.st = "uninit"
  /\ probe' = [probe EXCEPT !.lo = binary_split(probe.a, probe.m, 1).res]
  /\ UNCHANGED runvars

\* binary_split(m, b, &hi)
ProbeHi ==
  /\ probe.a < probe.m
  /\ probe.hi.st = "uninit"
  /\ probe' = [probe EXCEPT !.hi = binary_split(probe.m, probe.b, 1).res]
  /\ UNCHANGED runvars

\* The combination of binary_split's recursive case applied to lo and hi.
ProbeCombine ==
  /\ probe.lo.st = "init"
  /\ probe.hi.st = "init"
  /\ probe.comb.st = "uninit"
  /\ probe' = [probe EXCEPT !.comb = [st |-> "init",
                                      P |-> SplitP(probe.lo, probe.hi),
                                      Q |-> SplitQ(probe.lo, probe.hi),
                                      T |-> SplitT(probe.lo, probe.hi)]]
  /\ UNCHANGED runvars

ProbeNext ==
  \/ ProbeWhole
  \/ ProbeLo
  \/ ProbeHi
  \/ ProbeCombine

ProbeSpec == ProbeInit /\ [][ProbeNext]_vars

\* ------------------------------------------------------------------------
\* Properties
\* ------------------------------------------------------------------------

\* The three integers of a triple.
PQT(t) == <<t.P, t.Q, t.T>>

\* mpz value of a machine integer.
mpz_of_int(n) == IF n < 0 THEN mpz_neg(mpz_set_ui(0 - n)) ELSE mpz_set_ui(n)

\* The combination rule of the binary splitting: left covers the lower part of
\* the range, right the upper part.
Rule(l, r) ==
  <<mpz_mul(l.P, r.P),
    mpz_mul(l.Q, r.Q),
    mpz_add(mpz_mul(r.Q, l.T), mpz_mul(l.P, r.T))>>

\* Every thread of the multi-thread path has been created.
AllCreated == DOMAIN wpc # {} /\ \A k \in DOMAIN wpc : wpc[k] # "none"

\* What a run prints when its aggregate triple is t.
Printed(t) ==
  IF quiet_mode = 0 THEN <<pi_value(decimals, t.Q, t.T)>> ELSE <<>>

\* C1: for the same digit count every thread count >= 1 gives the result of
\* the single-thread path: the aggregate triple handed to the final value
\* derivation is binary_split(0, N), and the run ends having printed the value
\* derived from it.
C1_SameResultForEveryThreadCount ==
  LET ref == binary_split(0, Iterations(decimals), 1).res
  IN  /\ pc = "derive1" => PQT(result) = PQT(ref)
      /\ pc = "derive" => PQT(final) = PQT(ref)
      /\ pc \in {"done", "killed"} => stdout = Printed(ref)

\* C2: for every range [a, b) and every split point a < m < b, the rule applied
\* to binary_split(a, m) and binary_split(m, b) gives the P, Q and T of
\* binary_split(a, b).
C2_SplitPointIndependent ==
  (probe.whole.st = "init" /\ probe.comb.st = "init")
    => PQT(probe.comb) = PQT(probe.whole)

C2_Witness ==
  /\ probe.whole.st = "init"
  /\ probe.comb.st = "init"
  /\ probe.b - probe.a >= 4
  /\ probe.m # CDiv(probe.a + probe.b, 2)

\* C3: the sub-ranges given to the W threads start at 0, end at N, are
\* contiguous, the first W-1 have floor(N/W) terms and the last has the rest,
\* and every term index of [0, N) lies in exactly one of them.
C3_Partition ==
  AllCreated =>
    LET W == num_threads
        N == iterations
    IN  /\ DOMAIN data = 0..(W - 1)
        /\ data[0].a = 0
        /\ data[W - 1].b = N
        /\ \A k \in 0..(W - 2) :
             /\ data[k + 1].a = data[k].b
             /\ data[k].b - data[k].a = N \div W
        /\ data[W - 1].b - data[W - 1].a = N - (W - 1) * (N \div W)
        /\ \A t \in 0..(N - 1) :
             Cardinality({k \in 0..(W - 1) : data[k].a <= t /\ t < data[k].b}) = 1

C3_Witness ==
  /\ AllCreated
  /\ num_threads = 3
  /\ iterations % num_threads # 0

\* C4: every range [a, b) passed to binary_split, by main, by a worker or by a
\* recursive call, has 0 <= a < b.
C4_RangesNonEmpty ==
  \A r \in calls : 0 <= r[1] /\ r[1] < r[2]

\* C5 as claimed: when main combines worker results for the first time, every
\* worker has terminated.
C5_FullBarrier ==
  (pc = "fold" /\ i >= 1) => \A k \in DOMAIN wpc : wpc[k] = "exited"

\* C5: when main takes the triple of worker i into the fold, the workers 0..i
\* have terminated (and been joined); workers of higher index may still run.
C5_JoinedBeforeFolded ==
  /\ pc = "fold" => \A k \in 0..i : wpc[k] = "exited"
  /\ pc = "derive" => \A k \in DOMAIN wpc : wpc[k] = "exited"

C5_Witness ==
  /\ pc = "fold"
  /\ i >= 1
  /\ \E k \in DOMAIN wpc : k > i /\ wpc[k] # "exited"

\* A step of main that takes one triple into the fold.
FoldTaken == pc = "fold" /\ pc' \in {"join", "derive"}

\* C6: the fold starts from worker 0's triple and takes the workers in
\* increasing index, whatever the order they finished in; each step is the rule
\* with the accumulator as left and worker i's triple as right, on the values
\* the accumulator had before the step.
C6_FoldInIndexOrder ==
  [][/\ (pc = "create" /\ pc' = "join") => i' = 0
     /\ (pc = "join" /\ pc' = "fold") => (i' = i /\ final' = final)
     /\ FoldTaken =>
          /\ i' = i + 1
          /\ IF i = 0
             THEN PQT(final') = PQT(data[0].result)
             ELSE PQT(final') = Rule(final, data[i].result)]_vars

C6_Witness ==
  /\ pc = "derive"
  /\ num_threads >= 3
  /\ overtaken

\* C7: binary_split of the single-term range [k, k+1) gives P = 1 and Q = 1 for
\* k = 0, and for k > 0 P = -(6k-5)(2k-1)(6k-1) and Q = 640320^3 * k^3 / 24 with
\* nothing left over by the division; in both cases T = P * (13591409 + 545140134 k).
C7_LeafTerm ==
  (probe.whole.st = "init" /\ probe.b = probe.a + 1) =>
    LET k == probe.a
        P == probe.whole.P
        Q == probe.whole.Q
        T == probe.whole.T
        cube == mpz_mul(mpz_of_int(k * k * k), mpz_pow_ui(mpz_of_int(640320), 3))
    IN  /\ k = 0 => (P = mpz_of_int(1) /\ Q = mpz_of_int(1))
        /\ k > 0 =>
             /\ P = mpz_of_int(0 - (6 * k - 5) * (2 * k - 1) * (6 * k - 1))
             /\ mpz_mul(Q, mpz_of_int(24)) = cube
             /\ mpz_fdiv_ui(LeafQNumer(k), 24) = 0
        /\ T = mpz_mul(P, mpz_add(mpz_of_int(13591409),
                                  mpz_mul(mpz_of_int(545140134), mpz_of_int(k))))

C7_Witness ==
  /\ probe.whole.st = "init"
  /\ probe.b = probe.a + 1
  /\ probe.a >= 5

\* C8: the thread count is always >= 1; it is the value given with -t when that
\* value is >= 1, and 1 when that value is below 1 or when no -t was given; a
\* -t option does not end the run.
C8_ThreadCountClamped ==
  /\ [](/\ num_threads >= 1
        /\ t_arg = <<>> => num_threads = 1
        /\ t_arg # <<>> =>
             num_threads = (IF t_arg[1] >= 1 THEN t_arg[1] ELSE 1))
  /\ [][t_arg' # t_arg => (pc' = "getopt" /\ ret' = ret)]_vars

C8_Witness ==
  /\ t_arg # <<>>
  /\ t_arg[1] < 1
  /\ pc = "done"
  /\ num_threads = 1

\* Worker k is running: created and not yet terminated.
Running(k) == wpc[k] \in {"run", "P", "Q", "T"}

\* Main is at a statement that reads or writes data[k].result.
MainAt(k) ==
  \/ pc = "fold" /\ i = k
  \/ pc = "derive" /\ k = 0

\* C9: while worker k runs, main is at no statement that touches data[k].result
\* and no step but worker k's own changes data[k]; a step of worker k changes
\* no other worker's data.
C9_NoSharedTriple ==
  /\ [](\A k \in DOMAIN wpc : Running(k) => ~MainAt(k))
  /\ [][\A k \in DOMAIN wpc :
          /\ (Running(k) /\ wpc' = wpc) => data'[k] = data[k]
          /\ (Running(k) /\ wpc'[k] # wpc[k]) =>
               \A j \in DOMAIN data : j # k => data'[j] = data[j]]_vars

C9_Witness ==
  /\ pc = "fold"
  /\ \E k \in DOMAIN wpc : wpc[k] \in {"Q", "T"} /\ data[k].result.P # mpz_zero

RECURSIVE InOrderFold(_, _, _)
\* The rule applied from left to right to the binary_split triples of the
\* sub-ranges 0..k of n terms over w threads.
InOrderFold(k, n, w) ==
  LET ch == n \div w
      r  == binary_split(k * ch, IF k = w - 1 THEN n ELSE (k + 1) * ch, 1).res
  IN  IF k = 0 THEN PQT(r)
      ELSE LET acc == InOrderFold(k - 1, n, w)
           IN  Rule([P |-> acc[1], Q |-> acc[2], T |-> acc[3]], r)

\* The aggregate triple as the digit count and the thread count determine it.
Determined(d, w) ==
  LET t == InOrderFold(w - 1, Iterations(d), w)
  IN  [P |-> t[1], Q |-> t[2], T |-> t[3]]

\* C10: the digit count and the thread count determine the run: whichever way
\* the workers are scheduled and finish, the aggregate triple handed to the
\* final value derivation and the output of a run that returns are the same,
\* and a run is killed exactly when its thread count leaves a thread no term.
C10_Deterministic ==
  /\ pc = "derive" => PQT(final) = PQT(Determined(decimals, num_threads))
  /\ pc = "done" =>
       /\ stdout = Printed(Determined(decimals, num_threads))
       /\ num_threads <= iterations
  /\ pc = "killed" => (stdout = <<>> /\ num_threads > iterations)
  /\ (AllCreated /\ num_threads > iterations) => pc \in {"join", "killed"}

C10_Witness ==
  /\ pc = "done"
  /\ overtaken
  /\ quiet_mode = 0

\* The recursive calls among the ranges of a trace: those that are not the
\* base case.
Inner(tr) == {r \in Range(tr) : r[2] - r[1] # 1}

\* The number of entries of a trace that are the range r.
Entered(tr, r) == Cardinality({j \in DOMAIN tr : tr[j] = r})

\* C11: binary_split(a, b) with 0 <= a < b returns; every call that is not a
\* base case is on a range [x, y) of two or more terms and enters exactly its
\* two halves [x, m) and [m, y), m = floor((x + y) / 2), x < m < y; nothing
\* else is entered but the call on [a, b) itself; the base case is entered
\* exactly once for every k in [a, b) and for no other index.
C11_TerminatesLeavesOnce ==
  probe.trace # <<>> =>
    LET tr == probe.trace
        a  == probe.a
        b  == probe.b
    IN  /\ probe.ok
        /\ probe.whole.st = "init"
        /\ tr[1] = <<a, b>>
        /\ \A r \in Inner(tr) :
             LET m == (r[1] + r[2]) \div 2
             IN  /\ r[1] < m /\ m < r[2]
                 /\ Entered(tr, r) = 1
                 /\ Entered(tr, <<r[1], m>>) = 1
                 /\ Entered(tr, <<m, r[2]>>) = 1
        /\ \A j \in 2..Len(tr) :
             \E r \in Inner(tr) :
               LET m == (r[1] + r[2]) \div 2
               IN  tr[j] = <<r[1], m>> \/ tr[j] = <<m, r[2]>>
        /\ \A k \in a..(b - 1) : Entered(tr, <<k, k + 1>>) = 1
        /\ \A r \in Range(tr) : a <= r[1] /\ r[1] < r[2] /\ r[2] <= b
        /\ Len(tr) = 2 * (b - a) - 1

C11_Witness ==
  /\ probe.trace # <<>>
  /\ probe.ok
  /\ probe.a > 0
  /\ probe.b - probe.a >= 5
  /\ (probe.b - probe.a) % 2 = 1

\* What has happened to one pqt_t is the beginning of a life in which it is
\* initialised once, then stored into, then consumed once, then released once.
LegalSoFar(ev) ==
  /\ Len(ev) >= 1
  /\ ev[1] = "init"
  /\ \A j \in 2..Len(ev) :
       /\ ev[j] # "init"
       /\ ev[j] = "write" => ev[j - 1] \in {"init", "write"}
       /\ ev[j] = "use" => ev[j - 1] = "write"
       /\ ev[j] = "clear" => ev[j - 1] = "use"

\* The run has ended: main returned or the process was killed.
RunEnded == pc \in {"done", "usage", "killed"}

\* C12: every initialised pqt_t (the left and right of every binary_split
\* frame, each data[k].result, result and final) is consumed exactly once after
\* it was stored into, then released exactly once; nothing is stored into it or
\* read from it after its release; and when the run ends, on every path, every
\* one of them has been released.
C12_ConsumedOnceReleasedOnce ==
  /\ \A t \in DOMAIN life : LegalSoFar(life[t])
  /\ RunEnded =>
       \A t \in DOMAIN life : life[t][Len(life[t])] = "clear"

====
